---- MODULE Spec2Model ----
(***************************************************************************)
(* TempDesk: the age-based hide / restore / delete logic of               *)
(* DesktopWidget (src/TempDesk.py) over the managed folder and its 'old'   *)
(* sub-folder.                                                             *)
(*                                                                         *)
(* A file name is [base, ext] as os.path.splitext gives it; base is a      *)
(* sequence whose head is the stem and whose tail lists the numeric        *)
(* suffixes appended by f"{base}_{counter}{ext}", so "report_1.pdf" is     *)
(* [base |-> <<"report", 1>>, ext |-> ".pdf"] whether it was dropped under *)
(* that name or produced by the duplicate loop.                            *)
(*                                                                         *)
(* A folder is a function from the names present in it to                  *)
(* [id, ctime]: id identifies the file's content, ctime is what            *)
(* os.path.getctime returns (the creation time, which os.rename keeps).    *)
(***************************************************************************)
EXTENDS Integers, Sequences, FiniteSets, TLC

VARIABLES
    app,         \* which widget is running: DesktopWidget or TempDropWidget
    main,        \* direct file entries of self.TempDesk_folder
    old,         \* file entries of TempDesk_folder/old
    oldExists,   \* whether the directory TempDesk_folder/old exists
    oldCtime,    \* os.path.getctime of the directory 'old'
    config,      \* self.config: filter_period, auto_delete
    now,         \* time.time()
    nextId,      \* number of files ingested so far
    temp_folder, \* TempDropWidget.temp_folder (tempdrop_improved.py)
    last,        \* what the last handler did
    hist,        \* per file: when it was added, and the filter_period it was last hidden under
    auto_delete_days, \* TempDropWidget.auto_delete_days
    worker       \* the auto_delete_worker thread of TempDropWidget: where it is in cleanup_old_files

vars == <<app, main, old, oldExists, oldCtime, config, now, nextId, temp_folder, last, hist,
          auto_delete_days, worker>>

----------------------------------------------------------------------------
(* Bounds *)

MaxFiles == 2
MaxLocked == 1

(* Program constants *)

DefaultFilterPeriod == 86400
OneMinute == 60
DefaultAutoDeleteDays == 7

FilterPeriods == {OneMinute, DefaultFilterPeriod}

(* The instants at which handlers run *)
ClockValues == {0, 43200, 86400, 90000}

\* the file names that arrive: a dropped or pasted "report.url", and the shortcut
\* create_url_shortcut names after the pasted link http://www.report
Report == [base |-> <<"report">>, ext |-> ".url"]
DropNames == {Report}
UrlNames == {Report}

EmptyDir == [n \in {} |-> [id |-> 0, ctime |-> 0]]

----------------------------------------------------------------------------
(* Helpers over folders *)

Without(dir, name) == [n \in (DOMAIN dir) \ {name} |-> dir[n]]

With(dir, name, entry) == [n \in (DOMAIN dir) \cup {name} |-> IF n = name THEN entry ELSE dir[n]]

Ids(dir) == {dir[n].id : n \in DOMAIN dir}

RECURSIVE Perms(_)
Perms(S) == IF S = {} THEN {<<>>}
            ELSE UNION {{<<x>> \o p : p \in Perms(S \ {x})} : x \in S}

\* os.listdir: the names of a folder in arbitrary order
Listdir(dir) == Perms(DOMAIN dir)

Age(entry) == now - entry.ctime

\* f"{base_name}_{counter}{ext}"
SuffixedName(file, counter) == [base |-> Append(file.base, counter), ext |-> file.ext]

\* a variant of the duplicate loop that takes the candidate without probing
DuplicateLoopUnprobed(present, file, candidate, counter) == candidate

\* counter = 1; path = name; while os.path.exists(path): path = name_counter; counter += 1
RECURSIVE DuplicateLoop(_, _, _, _)
DuplicateLoop(present, file, candidate, counter) ==
    IF candidate \notin present THEN candidate
    ELSE DuplicateLoop(present, file, SuffixedName(file, counter), counter + 1)

FreeName(present, file) == DuplicateLoop(present, file, file, 1)

\* the number of times the duplicate loop evaluates os.path.exists
RECURSIVE DuplicateLoopProbes(_, _, _, _)
DuplicateLoopProbes(present, file, candidate, counter) ==
    IF candidate \notin present THEN 1
    ELSE 1 + DuplicateLoopProbes(present, file, SuffixedName(file, counter), counter + 1)

OldDirName == [base |-> <<"old">>, ext |-> ""]

\* what os.path.exists sees directly under TempDesk_folder
MainEntries(dir, hasOld) == (DOMAIN dir) \cup (IF hasOld THEN {OldDirName} ELSE {})


----------------------------------------------------------------------------
(* apply_file_filter *)

\* variants of the comparison of line 408: one that excludes the boundary and
\* one that reads the period of the default configuration
ShouldShowStrict(age, filter_period) == age < filter_period

ShouldShowDefaultPeriod(age, filter_period) == age <= DefaultFilterPeriod

\* a variant that compares the distance between the creation time and the clock
ShouldShowMagnitude(age, filter_period) ==
    (IF age < 0 THEN 0 - age ELSE age) <= filter_period

\* line 408: should_show = age <= filter_period, for a file of the managed folder
ShouldShow(age, filter_period) == age <= filter_period

\* line 440: should_show = age <= filter_period, for a file of the hidden folder
ShouldShowHidden(age, filter_period) == age <= filter_period

NoOp(op) == [op |-> op, moved |-> {}, removed |-> {}, aborted |-> FALSE, failed |-> {}]

\* the files whose os.rename / os.remove can raise during one handler run
\* (held open by another process): any set of at most MaxLocked present files
BusySets == {b \in SUBSET (Ids(main) \cup Ids(old)) : Cardinality(b) <= MaxLocked}

\* lines 421-427: the path a file is hidden under
HiddenPathUnchecked(present, file) == file

HiddenPath(present, file) == FreeName(present, file)

\* os.rename: the entry leaves the source folder ...
RenameSourceKept(dir, name) == dir

RenameSource(dir, name) == Without(dir, name)

\* ... and appears in the target folder with its creation time (a variant gives
\* it the time of the rename)
RenameTargetFresh(dir, name, entry) == With(dir, name, [entry EXCEPT !.ctime = now])

RenameTarget(dir, name, entry) == With(dir, name, entry)

\* os.rename raises (the file is held open, PermissionError): nothing is renamed,
\* and the exception leaves the try block of the pass
FailedRenameLosesFile(fs, id) ==
    [fs EXCEPT !.main = [n \in {x \in DOMAIN fs.main : fs.main[x].id # id} |-> fs.main[n]],
               !.old = [n \in {x \in DOMAIN fs.old : fs.old[x].id # id} |-> fs.old[n]],
               !.aborted = TRUE, !.failed = @ \cup {id}]

FailedRename(fs, id) == [fs EXCEPT !.aborted = TRUE, !.failed = @ \cup {id}]

\* lines 399-430: one enumerated file of the managed folder
HideOne(fs, file, filter_period, busy) ==
    IF file \notin DOMAIN fs.main THEN fs
    ELSE LET e == fs.main[file] IN
         IF ShouldShow(Age(e), filter_period) THEN fs
         ELSE LET final == HiddenPath(DOMAIN fs.old, file) IN
              IF e.id \in busy
              THEN FailedRename(fs, e.id)
              ELSE [fs EXCEPT !.main = RenameSource(fs.main, file),
                              !.old = RenameTarget(fs.old, final, e),
                              !.moved = @ \cup {[from |-> "main", src |-> file, dst |-> final]}]

\* for file in files_to_process: ... ; an exception leaves the loop
RECURSIVE HidePhase(_, _, _, _)
HidePhase(fs, order, filter_period, busy) ==
    IF order = <<>> \/ fs.aborted THEN fs
    ELSE HidePhase(HideOne(fs, Head(order), filter_period, busy),
                   Tail(order), filter_period, busy)

\* lines 436-447: one file of the hidden folder
\* a variant of the restore check that finds the name free
MainFilePathFree(dir, hidden_file) == FALSE

\* line 445: os.path.exists(main_file_path), of an entry of any kind
MainFilePathExists(dir, hidden_file) == hidden_file \in MainEntries(dir, TRUE)

RestoreOne(fs, hidden_file, filter_period, busy) ==
    IF hidden_file \notin DOMAIN fs.old THEN fs
    ELSE LET e == fs.old[hidden_file] IN
         IF ~ShouldShowHidden(Age(e), filter_period) THEN fs
         ELSE IF MainFilePathExists(fs.main, hidden_file) THEN fs
         ELSE IF e.id \in busy
              THEN FailedRename(fs, e.id)
              ELSE [fs EXCEPT !.old = RenameSource(fs.old, hidden_file),
                              !.main = RenameTarget(fs.main, hidden_file, e),
                              !.moved = @ \cup {[from |-> "old", src |-> hidden_file,
                                                 dst |-> hidden_file]}]

RECURSIVE RestorePhase(_, _, _, _)
RestorePhase(fs, order, filter_period, busy) ==
    IF order = <<>> \/ fs.aborted THEN fs
    ELSE RestorePhase(RestoreOne(fs, Head(order), filter_period, busy),
                      Tail(order), filter_period, busy)

StartOfPass(dirMain, dirOld) ==
    [main |-> dirMain, old |-> dirOld, aborted |-> FALSE, moved |-> {}, failed |-> {}]

\* the try block (lines 392-450) when os.listdir gives main as o1 (line 393) and
\* old as o2 (line 434, after the hide loop)
FilterResult(dirMain, dirOld, o1, o2, filter_period, busy) ==
    LET fs1 == HidePhase(StartOfPass(dirMain, dirOld), o1, filter_period, busy) IN
    IF fs1.aborted THEN fs1 ELSE RestorePhase(fs1, o2, filter_period, busy)

\* the listings of old that the restore loop can see after the hide loop over o1
OldListings(dirMain, dirOld, o1, filter_period, busy) ==
    Listdir(HidePhase(StartOfPass(dirMain, dirOld), o1, filter_period, busy).old)

\* the outcomes of a pass over every listing order
FilterRuns(dirMain, dirOld, filter_period, busy) ==
    UNION {
      {FilterResult(dirMain, dirOld, o1, o2, filter_period, busy) :
          o2 \in OldListings(dirMain, dirOld, o1, filter_period, busy)}
      : o1 \in Listdir(dirMain)}

apply_file_filter(op, filter_period) ==
    \E fs \in UNION {FilterRuns(main, old, filter_period, busy) : busy \in BusySets} :
        /\ main' = fs.main
        /\ old' = fs.old
        /\ oldExists' = TRUE
        /\ oldCtime' = IF oldExists THEN oldCtime ELSE now
        /\ last' = [op |-> op, moved |-> fs.moved, removed |-> {},
                    aborted |-> fs.aborted, failed |-> fs.failed]

periodic_refresh ==
    /\ apply_file_filter("filter", config.filter_period)
    /\ UNCHANGED <<config, now, nextId, temp_folder>>

on_filter_changed ==
    \E new_period \in FilterPeriods \ {config.filter_period} :
        /\ config' = [config EXCEPT !.filter_period = new_period]
        /\ apply_file_filter("filter_changed", new_period)
        /\ UNCHANGED <<now, nextId, temp_folder>>

on_auto_delete_changed ==
    /\ config' = [config EXCEPT !.auto_delete = ~@]
    /\ last' = NoOp("auto_delete_changed")
    /\ UNCHANGED <<main, old, oldExists, oldCtime, now, nextId, temp_folder>>

----------------------------------------------------------------------------
(* auto_cleanup *)

\* line 1130: (current_time - ctime) > filter_period
Expired(age, filter_period) == age > filter_period

\* lines 1131-1132: os.remove of the expired files directly under TempDesk_folder;
\* a failure is caught per item (line 1135)
CleanupFiles(dir, filter_period, busy) ==
    {n \in DOMAIN dir : Expired(Age(dir[n]), filter_period) /\ dir[n].id \notin busy}

\* shutil.rmtree(old): unlinks the entries in listing order and raises at the
\* first one it cannot unlink; gives what is left in the directory
RECURSIVE Rmtree(_, _, _)
Rmtree(dir, order, busy) ==
    IF order = <<>> THEN dir
    ELSE IF dir[Head(order)].id \in busy THEN dir
    ELSE Rmtree(Without(dir, Head(order)), Tail(order), busy)

\* what a removal is remembered by: the age of the removed file, and whether it
\* went with its directory (rmtree) or on its own (os.remove)
Removal(dir, names, viaDir) ==
    {[age |-> Age(dir[n]), viaDir |-> viaDir] : n \in names}

\* lines 1124-1136 over one listing of 'old' and one set of busy files
CleanupResult(dirMain, dirOld, hasOld, ctimeOld, filter_period, order, busy) ==
    LET gone == CleanupFiles(dirMain, filter_period, busy)
        dirExpired == hasOld /\ Expired(now - ctimeOld, filter_period)
        left == IF dirExpired THEN Rmtree(dirOld, order, busy) ELSE dirOld
    IN  [main |-> [n \in (DOMAIN dirMain) \ gone |-> dirMain[n]],
         old |-> left,
         oldExists |-> IF dirExpired THEN left # EmptyDir ELSE hasOld,
         removed |-> Removal(dirMain, gone, FALSE)
                     \cup Removal(dirOld, (DOMAIN dirOld) \ (DOMAIN left), TRUE),
         failed |-> busy \cap
                     ({dirMain[n].id : n \in {m \in DOMAIN dirMain :
                           Expired(Age(dirMain[m]), filter_period)}}
                      \cup (IF dirExpired THEN Ids(left) ELSE {}))]

CleanupRuns ==
    {CleanupResult(main, old, oldExists, oldCtime, config.filter_period, order, busy) :
        order \in Listdir(old), busy \in BusySets}

auto_cleanup ==
    IF ~config.auto_delete
    THEN /\ last' = NoOp("cleanup")
         /\ UNCHANGED <<main, old, oldExists, oldCtime, config, now, nextId, temp_folder>>
    ELSE \E r \in CleanupRuns :
            /\ main' = r.main
            /\ old' = r.old
            /\ oldExists' = r.oldExists
            /\ oldCtime' = oldCtime
            /\ last' = [op |-> "cleanup", moved |-> {}, removed |-> r.removed,
                        aborted |-> FALSE, failed |-> r.failed]
            /\ UNCHANGED <<config, now, nextId, temp_folder>>

----------------------------------------------------------------------------
(* Ingest *)

\* lines 766-772 (and 153-158 of tempdrop_improved.py): the path a new file gets
TargetPathOverwrite(present, filename) == filename

TargetPath(present, filename) == FreeName(present, filename)

\* lines 763-774: the duplicate loop over TempDesk_folder, then the move or
\* copy; the file is in TempDesk_folder with the creation time `created`
IngestAt(filename, created) ==
    LET target == TargetPath(MainEntries(main, oldExists), filename) IN
    /\ nextId < MaxFiles
    /\ nextId' = nextId + 1
    /\ main' = With(main, target, [id |-> nextId + 1, ctime |-> created])
    /\ last' = [NoOp("ingest") EXCEPT !.moved = {[from |-> "outside", src |-> filename,
                                            dst |-> target]}]
    /\ UNCHANGED <<old, oldExists, oldCtime, config, now, temp_folder>>

\* a file that is copied, moved from another volume or newly written: its
\* creation time is the time it is placed in TempDesk_folder (lines 403-405)
Ingest(filename) == IngestAt(filename, now)

\* drop on the list view
view_drop_event == \E filename \in DropNames : Ingest(filename)

\* drop on the window
dropEvent == \E filename \in DropNames : Ingest(filename)

\* paste of file urls, cut (shutil.move) or copied (shutil.copy2)
paste_items == \E filename \in DropNames : Ingest(filename)

\* paste of a web link: a new <domain>.url file
create_url_shortcut == \E filename \in UrlNames : Ingest(filename)

\* TempDropWidget.add_file_manually -> move_file_to_temp, on its own temp_folder
move_file_to_temp ==
    \E filename \in DropNames :
        LET dest == TargetPath(DOMAIN temp_folder, filename) IN
        /\ nextId < MaxFiles
        /\ nextId' = nextId + 1
        /\ temp_folder' = With(temp_folder, dest, [id |-> nextId + 1, ctime |-> now])
        /\ last' = [NoOp("ingest") EXCEPT
                        !.moved = {[from |-> "outside", src |-> filename, dst |-> dest]}]
        /\ UNCHANGED <<main, old, oldExists, oldCtime, config, now, auto_delete_days, worker>>

\* the days a user can enter in the settings dialog: one day, or the default
AutoDeleteDays == {1, DefaultAutoDeleteDays}

\* timedelta(days=...) in seconds
Timedelta(days) == days * 86400

\* save_settings of show_settings: self.auto_delete_days = int(days_var.get())
save_settings ==
    \E days \in AutoDeleteDays \ {auto_delete_days} :
        /\ auto_delete_days' = days
        /\ last' = NoOp("save_settings")
        /\ UNCHANGED <<main, old, oldExists, oldCtime, config, now, nextId, temp_folder, worker>>

Asleep == [pc |-> "sleep", todo |-> <<>>, cutoff_date |-> 0]

\* auto_delete_worker wakes up (at start, then after time.sleep(3600)) and
\* cleanup_old_files computes cutoff_date and lists temp_folder (lines 273-276)
cleanup_old_files_listdir ==
    /\ worker.pc = "sleep"
    /\ \E order \in Listdir(temp_folder) :
          worker' = IF order = <<>> THEN Asleep
                    ELSE [pc |-> "loop", todo |-> order,
                          cutoff_date |-> now - Timedelta(auto_delete_days)]
    /\ last' = NoOp("worker")
    /\ UNCHANGED <<main, old, oldExists, oldCtime, config, now, nextId, temp_folder,
                   auto_delete_days>>

\* one iteration of the for loop of cleanup_old_files (lines 277-285), in the
\* worker thread: no lock is held, the main thread runs between two iterations
cleanup_old_files_step ==
    /\ worker.pc = "loop"
    /\ LET filename == Head(worker.todo)
           expired == /\ filename \in DOMAIN temp_folder
                      /\ temp_folder[filename].ctime < worker.cutoff_date
       IN \E removable \in BOOLEAN :
            /\ temp_folder' = IF expired /\ removable THEN Without(temp_folder, filename)
                              ELSE temp_folder
            /\ last' = [NoOp("worker") EXCEPT
                            !.removed = IF expired /\ removable
                                        THEN Removal(temp_folder, {filename}, FALSE) ELSE {},
                            !.failed = IF expired /\ ~removable
                                       THEN {temp_folder[filename].id} ELSE {}]
    /\ worker' = IF Tail(worker.todo) = <<>> THEN Asleep
                 ELSE [worker EXCEPT !.todo = Tail(@)]
    /\ UNCHANGED <<main, old, oldExists, oldCtime, config, now, nextId, auto_delete_days>>

----------------------------------------------------------------------------
(* Environment *)

Tick ==
    \E t \in ClockValues :
        /\ t > now
        /\ now' = t
        /\ last' = NoOp("none")
        /\ UNCHANGED <<main, old, oldExists, oldCtime, config, nextId, temp_folder>>

----------------------------------------------------------------------------

Init ==
    /\ app \in {"TempDesk", "TempDrop"}
    /\ main = EmptyDir
    /\ old = EmptyDir
    /\ oldExists = TRUE
    /\ oldCtime = 0
    /\ config = [filter_period |-> DefaultFilterPeriod, auto_delete |-> FALSE]
    /\ now = 0
    /\ nextId = 0
    /\ temp_folder = EmptyDir
    /\ last = NoOp("none")
    /\ hist = <<>>
    /\ auto_delete_days = DefaultAutoDeleteDays
    /\ worker = Asleep

\* the history a handler's step leaves, of the files that are on disk after it:
\* a file that arrives is recorded with the creation time it arrives with, a file the pass
\* hides with the filter_period of the pass and the name it had in the managed
\* folder, for as long as it stays hidden
NoName == [base |-> <<>>, ext |-> ""]

Recorded ==
    [id \in Ids(main') \cup Ids(old') \cup Ids(temp_folder') |->
        IF id > nextId
        THEN [addedAt |-> (CHOOSE e \in {main'[n] : n \in DOMAIN main'}
                                       \cup {temp_folder'[n] : n \in DOMAIN temp_folder'} :
                               e.id = id).ctime,
              hiddenUnder |-> 0, hiddenFrom |-> NoName]
        ELSE IF id \notin Ids(old')
        THEN [hist[id] EXCEPT !.hiddenUnder = 0, !.hiddenFrom = NoName]
        ELSE IF id \in {main[m.src].id : m \in {x \in last'.moved : x.from = "main"}}
             THEN [hist[id] EXCEPT
                      !.hiddenUnder = config'.filter_period,
                      !.hiddenFrom = CHOOSE n \in DOMAIN main : main[n].id = id]
             ELSE hist[id]]

\* handlers of DesktopWidget (TempDesk.py)
TempDesk(handler) ==
    app = "TempDesk" /\ handler /\ hist' = Recorded /\ UNCHANGED <<app, auto_delete_days, worker>>

\* handlers of TempDropWidget (tempdrop_improved.py)
TempDrop(handler) == app = "TempDrop" /\ handler /\ hist' = Recorded /\ UNCHANGED app

Next ==
    \/ TempDesk(periodic_refresh)
    \/ TempDesk(on_filter_changed)
    \/ TempDesk(on_auto_delete_changed)
    \/ TempDesk(auto_cleanup)
    \/ TempDesk(view_drop_event)
    \/ TempDesk(dropEvent)
    \/ TempDesk(paste_items)
    \/ TempDesk(create_url_shortcut)
    \/ TempDrop(move_file_to_temp)
    \/ TempDrop(save_settings)
    \/ TempDrop(cleanup_old_files_listdir)
    \/ TempDrop(cleanup_old_files_step)
    \/ (Tick /\ UNCHANGED <<app, hist, auto_delete_days, worker>>)

Spec == Init /\ [][Next]_vars

----------------------------------------------------------------------------
(* The folder is also changed from outside the widget *)

\* what a pass makes of a file g that another program deletes after the pass
\* has listed the managed folder (line 393). If g is gone when the pass comes to
\* it, os.path.isfile (line 402) is false and the pass goes on to the next file;
\* if g goes between the os.path.exists of line 419 and the os.rename of line
\* 429, os.rename raises FileNotFoundError
ExternalRemovalRuns(g, raised, filter_period) ==
    LET busy == IF raised THEN {main[g].id} ELSE {}
        start == IF raised THEN main ELSE Without(main, g)
        runs == UNION {
                  {FilterResult(start, old, o1, o2, filter_period, busy) :
                      o2 \in OldListings(start, old, o1, filter_period, busy)}
                  : o1 \in Listdir(main)}
    IN {[fs EXCEPT !.main = [n \in (DOMAIN fs.main) \ {g} |-> fs.main[n]]] : fs \in runs}

\* periodic_refresh while another program deletes a file of the managed folder
periodic_refresh_external_removal ==
    /\ \E g \in DOMAIN main, raised \in BOOLEAN :
          \E fs \in ExternalRemovalRuns(g, raised, config.filter_period) :
              /\ main' = fs.main
              /\ old' = fs.old
              /\ oldExists' = TRUE
              /\ oldCtime' = IF oldExists THEN oldCtime ELSE now
              /\ last' = [op |-> "filter_external", moved |-> fs.moved, removed |-> {},
                          aborted |-> fs.aborted, failed |-> fs.failed]
    /\ UNCHANGED <<config, now, nextId, temp_folder>>

\* creation times of files that are moved in from the same volume: long past,
\* or ahead of the clock
CreationTimes == {0, 90000}

\* shutil.move of a dropped or cut file (lines 774, 888-896, 1009) from a folder of
\* the same volume is os.rename, which keeps the creation time of the file
shutil_move ==
    \E filename \in DropNames, created \in CreationTimes : IngestAt(filename, created)

InitMove == Init /\ app = "TempDesk"

\* the passes and the timers over files that were moved in
NextMove ==
    \/ TempDesk(periodic_refresh)
    \/ TempDesk(on_filter_changed)
    \/ TempDesk(on_auto_delete_changed)
    \/ TempDesk(auto_cleanup)
    \/ TempDesk(shutil_move)
    \/ (Tick /\ UNCHANGED <<app, hist, auto_delete_days, worker>>)

SpecMove == InitMove /\ [][NextMove]_vars

\* a variant of directory_changed that reapplies the filter
directory_changed_reapplies_filter ==
    /\ apply_file_filter("directory_changed", config.filter_period)
    /\ UNCHANGED <<config, now, nextId, temp_folder>>

\* QFileSystemWatcher.directoryChanged (lines 355-358): resets the root path of
\* the model and the root index of the view
directory_changed ==
    /\ last' = NoOp("directory_changed")
    /\ UNCHANGED <<main, old, oldExists, oldCtime, config, now, nextId, temp_folder>>

\* FileChangeHandler.on_created / on_deleted / on_moved (tempdrop_improved.py,
\* lines 392-402): schedule update_files_list, which redraws the icons
update_files_list ==
    /\ last' = NoOp("directory_changed")
    /\ UNCHANGED <<main, old, oldExists, oldCtime, config, now, nextId, temp_folder,
                   auto_delete_days, worker>>

NextExternal ==
    \/ Next
    \/ TempDesk(periodic_refresh_external_removal)
    \/ TempDesk(directory_changed)
    \/ TempDrop(update_files_list)

SpecExternal == Init /\ [][NextExternal]_vars

----------------------------------------------------------------------------
(* Vocabulary of the claims *)

FilterOps == {"filter", "filter_changed"}

AfterPass == app = "TempDesk" /\ last.op \in FilterOps

HideMoves(l) == {m \in l.moved : m.from = "main"}

RestoreMoves(l) == {m \in l.moved : m.from = "old"}

\* the reference classification of section 4.1
Classify(age, filter_period, auto_delete) ==
    IF age <= filter_period THEN "Visible"
    ELSE IF auto_delete THEN "Delete" ELSE "Hidden"

\* how many on-disk entries hold the file with this id
EntryCount(dirMain, dirOld, id) ==
    Cardinality({n \in DOMAIN dirMain : dirMain[n].id = id})
    + Cardinality({n \in DOMAIN dirOld : dirOld[n].id = id})

----------------------------------------------------------------------------
(* C1: the automatic logic removes an entry only when auto_delete is set and
   that entry's own age exceeds filter_period at the moment of removal; in
   particular no entry of age <= filter_period goes with the directory that
   holds it. *)
C1_NoSilentDataLoss ==
    app = "TempDesk" =>
        \A r \in last.removed : config.auto_delete /\ r.age > config.filter_period

(* C2: what the filter and the cleanup do to a file is the reference
   classification of its (age, filter_period, auto_delete): only Hidden files
   are moved to the hidden folder, only Visible ones are moved back, only
   Delete ones are removed, in whichever folder the file lies. *)
C2_ClassificationIsReference ==
    app = "TempDesk" =>
    /\ \A m \in HideMoves(last) : m.dst \in DOMAIN old =>
          Classify(Age(old[m.dst]), config.filter_period, config.auto_delete) = "Hidden"
    /\ \A m \in RestoreMoves(last) : m.dst \in DOMAIN main =>
          Classify(Age(main[m.dst]), config.filter_period, config.auto_delete) = "Visible"
    /\ \A r \in last.removed :
          Classify(r.age, config.filter_period, config.auto_delete) = "Delete"

(* C3 as stated: after any pass no file name exists both directly under the
   managed folder and under the hidden folder, and each file has one entry. *)
C3_NoNameInBothFolders ==
    AfterPass =>
        /\ (DOMAIN main) \cap (DOMAIN old) = {}
        /\ \A id \in 1..nextId : EntryCount(main, old, id) <= 1

(* C3 as amended: a pass neither duplicates nor loses a file: every file has
   after the pass as many entries as before it, and never more than one, so
   the same name in both folders always names two different files. *)
C3_OneEntryPerFile ==
    [][(app = "TempDesk" /\ last'.op \in FilterOps) =>
          \A id \in 1..nextId :
              /\ EntryCount(main', old', id) = EntryCount(main, old, id)
              /\ EntryCount(main', old', id) <= 1]_vars

\* a pass has run and left the same name in both folders, for two files
C3_SameNameTwoFiles ==
    /\ AfterPass
    /\ \E n \in (DOMAIN main) \cap (DOMAIN old) : main[n].id # old[n].id

(* C4: hiding a file named N into a hidden folder that holds an entry named N
   leaves that entry untouched and moves the file under base_k+ext for the
   smallest k >= 1 not present there; no hide-move overwrites or removes an
   entry of the hidden folder. *)
C4_HideCollisionPolicy ==
    [][(app = "TempDesk" /\ last'.op \in FilterOps) =>
          /\ \A n \in DOMAIN old :
                \/ n \in DOMAIN old' /\ old'[n] = old[n]
                \/ [from |-> "old", src |-> n, dst |-> n] \in last'.moved
          /\ \A m \in HideMoves(last') :
                LET taken == (DOMAIN old) \cup {x.dst : x \in HideMoves(last') \ {m}} IN
                /\ m.dst \notin DOMAIN old
                /\ \/ m.dst = m.src
                   \/ \E k \in 1..(Cardinality(taken) + 1) :
                         /\ m.dst = SuffixedName(m.src, k)
                         /\ m.src \in taken
                         /\ \A j \in 1..(k - 1) : SuffixedName(m.src, j) \in taken]_vars

\* a pass hid a file under a suffixed name next to the entry that has its name
C4_HiddenUnderSuffix ==
    /\ AfterPass
    /\ \E m \in HideMoves(last) :
          /\ m.dst = SuffixedName(m.src, 1)
          /\ m.src \in DOMAIN old /\ m.dst \in DOMAIN old
          /\ old[m.src].id # old[m.dst].id

(* C5: a hidden file that a pass classifies as Visible is moved back into the
   managed folder, under the first free suffixed name when its own name is
   taken there, and is not left behind in the hidden folder. *)
C5_RestoreUsesSuffix ==
    (AfterPass /\ ~last.aborted) =>
        \A n \in DOMAIN old : ~(Age(old[n]) <= config.filter_period)

(* C6: every ingest path places the new file in its folder under its own name
   if that is free and otherwise under base_k+ext for the smallest k >= 1 not
   present; it adds that one entry and changes no existing one, so two files
   ingested under one name are two entries, N and N_1. *)
C6_IngestCollisionPolicy ==
    [][last'.op = "ingest" =>
          LET dir == IF app = "TempDesk" THEN main ELSE temp_folder
              after == IF app = "TempDesk" THEN main' ELSE temp_folder'
              present == IF app = "TempDesk" THEN MainEntries(main, oldExists)
                         ELSE DOMAIN temp_folder
          IN  \E m \in last'.moved :
                /\ last'.moved = {m}
                /\ m.dst \notin present
                /\ DOMAIN after = (DOMAIN dir) \cup {m.dst}
                /\ \A n \in DOMAIN dir : after[n] = dir[n]
                /\ after[m.dst].id \notin Ids(dir)
                /\ old' = old
                /\ \/ m.dst = m.src
                   \/ \E k \in 1..(Cardinality(present) + 1) :
                         /\ m.dst = SuffixedName(m.src, k)
                         /\ m.src \in present
                         /\ \A j \in 1..(k - 1) : SuffixedName(m.src, j) \in present]_vars

\* a second file was ingested under the name of one that is there: N and N_1
C6_SecondIngestSuffixed ==
    /\ app = "TempDesk"
    /\ last.op = "ingest"
    /\ \E m \in last.moved :
          /\ m.dst = SuffixedName(m.src, 1)
          /\ m.src \in DOMAIN main /\ m.dst \in DOMAIN main
          /\ main[m.src].id # main[m.dst].id

(* C7: a move that fails on one file of a pass does not keep the pass from
   reconciling the other files: after the pass every other file of the managed
   folder is within filter_period, and every other hidden file within
   filter_period whose name is free has been moved back. *)
C7_PerFileIsolation ==
    (AfterPass /\ last.failed # {}) =>
        /\ \A n \in DOMAIN main :
              main[n].id \notin last.failed => Age(main[n]) <= config.filter_period
        /\ \A n \in DOMAIN old :
              (old[n].id \notin last.failed /\ Age(old[n]) <= config.filter_period)
                  => n \in DOMAIN main

\* the listings of an unchanged folder pair that repeat those of a pass that was
\* cut short at the file in `failed`: what was listed before that file has been
\* dealt with, so no file that still needs a move is listed before it
SameListing(o1, o2, failed, filter_period) ==
    /\ \A i, j \in 1..Len(o1) :
          (i < j /\ main[o1[j]].id \in failed) => Age(main[o1[i]]) <= filter_period
    /\ \A i, j \in 1..Len(o2) :
          (i < j /\ old[o2[j]].id \in failed) =>
              (Age(old[o2[i]]) > filter_period \/ o2[i] \in DOMAIN main)

\* a second apply_file_filter on the folders as they are moves nothing
SecondFilterMovesNothing ==
    /\ ~last.aborted =>
          \A busy \in BusySets :
            \A fs \in FilterRuns(main, old, config.filter_period, busy) :
                fs.moved = {} /\ fs.main = main /\ fs.old = old
    /\ last.aborted =>
          \A o1 \in Listdir(main), o2 \in Listdir(old) :
              SameListing(o1, o2, last.failed, config.filter_period) =>
                  LET fs == FilterResult(main, old, o1, o2,
                                         config.filter_period, last.failed)
                  IN fs.moved = {} /\ fs.main = main /\ fs.old = old

\* a second auto_cleanup on the folders as they are removes nothing
SecondCleanupRemovesNothing ==
    \A r \in CleanupRuns : config.auto_delete => r.removed = {}

(* C8: a second pass right after a pass, at the same clock value and with
   nothing changed in between, performs no move and no delete: it leaves both
   folders as the first pass left them. This holds of apply_file_filter, and of
   auto_cleanup after a run that met no failure. After an apply_file_filter
   that a busy file cut short, nothing changed means the file is still busy
   and the folders list in the same order. *)
C8_Idempotent ==
    /\ AfterPass => SecondFilterMovesNothing
    /\ (app = "TempDesk" /\ last.op = "cleanup" /\ last.failed = {})
          => SecondCleanupRemovesNothing

\* a pass that moved a file has run, so that a second one has something to repeat
C8_PassMovedSomething ==
    /\ AfterPass
    /\ HideMoves(last) # {}
    /\ RestoreMoves(last) # {}

(* C9: with auto_delete off, a pass that no failing move cuts short leaves in
   the managed folder every file of age <= filter_period and moves into the
   hidden folder every file of the managed folder of age > filter_period,
   under the filter_period in force when it runs. *)
C9_HideOnAging ==
    [][(app = "TempDesk" /\ last'.op \in FilterOps /\ ~last'.aborted
          /\ ~config'.auto_delete) =>
          \A n \in DOMAIN main :
              IF Age(main[n]) <= config'.filter_period
              THEN n \in DOMAIN main' /\ main'[n] = main[n]
              ELSE /\ main[n].id \notin Ids(main')
                   /\ \E h \in DOMAIN old' : old'[h] = main[n]]_vars

\* the file added at 0 under filter_period 86400 is in the hidden folder after
\* the pass at 90000
C9_HiddenAt90000 ==
    /\ AfterPass /\ ~config.auto_delete
    /\ now = 90000 /\ config.filter_period = 86400
    /\ \E m \in HideMoves(last) : m.dst \in DOMAIN old /\ old[m.dst].ctime = 0

(* C10: with auto_delete on, a pass removes the files of the managed folder of
   age > filter_period instead of moving them into the hidden folder: after
   the pass none of them is in either folder. *)
C10_PassDeletesAged ==
    (AfterPass /\ config.auto_delete /\ ~last.aborted) =>
        /\ HideMoves(last) = {}
        /\ \A n \in DOMAIN main : Age(main[n]) <= config.filter_period

(* C11: with auto_delete on, when the cleanup timer's handler has run (and no
   removal failed), no file is left in the hidden folder whose own age exceeds
   filter_period. *)
C11_PurgeOfHiddenOnTick ==
    (app = "TempDesk" /\ last.op = "cleanup" /\ config.auto_delete /\ last.failed = {}) =>
        \A n \in DOMAIN old : ~(Age(old[n]) > config.filter_period)

(* C12: turning auto_delete on runs a pass before the handler returns: a file
   of the hidden folder whose age exceeds filter_period is gone when
   on_auto_delete_changed is done. *)
C12_AutoDeleteChangeRunsPass ==
    [][(last'.op = "auto_delete_changed" /\ config'.auto_delete) =>
          \A n \in DOMAIN old :
              Age(old[n]) > config'.filter_period => old[n].id \notin Ids(old')]_vars

(* C13: when filter_period is widened, the pass that follows (and that no
   failing move cuts short) moves back into the managed folder every file of
   the hidden folder whose age is <= the new filter_period. *)
C13_RestoreOnWidening ==
    [][(last'.op = "filter_changed" /\ ~last'.aborted
          /\ config'.filter_period > config.filter_period) =>
          \A n \in DOMAIN old :
              Age(old[n]) <= config'.filter_period =>
                  /\ old[n].id \in Ids(main')
                  /\ old[n].id \notin Ids(old')]_vars

(* C16: no trigger of the widget (pass, timer-driven cleanup, settings change)
   removes the directory 'old' itself. *)
C16_OldDirNeverRemoved ==
    [][(app = "TempDesk" /\ oldExists) => oldExists']_vars

(* C20: when the directory 'old' is missing, the next pass (apply_file_filter,
   or auto_cleanup with auto_delete on) leaves it existing. *)
C20_MissingFolderRecreated ==
    [][(app = "TempDesk" /\ ~oldExists
          /\ (last'.op \in FilterOps \/ (last'.op = "cleanup" /\ config.auto_delete)))
          => oldExists']_vars

(* C17: a file that a pass has moved to the hidden folder is moved back by a
   later pass only after filter_period has been widened so that the file's age
   is <= filter_period: every restore is of a file that was in the hidden
   folder before the pass, that was hidden under a smaller filter_period than
   the one of the pass, and whose age is within the one of the pass. *)
C17_MonotonicHiding ==
    [][(app = "TempDesk" /\ last'.op \in FilterOps) =>
          \A m \in RestoreMoves(last') :
              /\ m.dst \in DOMAIN main'
              /\ LET e == main'[m.dst] IN
                   /\ e.id \in Ids(old)
                   /\ hist[e.id].hiddenUnder < config'.filter_period
                   /\ Age(e) <= config'.filter_period]_vars

\* a timer pass under the period a file was hidden under has run and moved
\* nothing: the file is still hidden
C17_StaysHidden ==
    /\ AfterPass /\ last.op = "filter" /\ last.moved = {} /\ ~last.aborted
    /\ \E n \in DOMAIN old : hist[old[n].id].hiddenUnder = config.filter_period

(* C18: the creation time a pass computes a file's age from is the creation
   time the file had when it was added, whichever folder holds the file and
   however often it has been hidden and restored. *)
C18_AgeLocationIndependent ==
    /\ \A n \in DOMAIN main : main[n].ctime = hist[main[n].id].addedAt
    /\ \A n \in DOMAIN old : old[n].ctime = hist[old[n].id].addedAt

\* a file is back in the managed folder after a round trip, at a later time
\* than it was added
C18_RoundTrip ==
    /\ AfterPass
    /\ \E m \in RestoreMoves(last) :
          /\ main[m.dst].ctime = hist[main[m.dst].id].addedAt
          /\ hist[main[m.dst].id].addedAt < now

(* C19: a move that fails during a pass leaves the file where it was, under
   its name and with its creation time, and puts nothing in the other folder;
   an apply_file_filter that runs next, with the file no longer busy, moves it. *)
C19_FailedMoveHarmless ==
    [][(app = "TempDesk" /\ last'.op \in FilterOps) =>
          \A id \in last'.failed :
              \/ /\ id \notin Ids(old')
                 /\ \E n \in DOMAIN main :
                       main[n].id = id /\ n \in DOMAIN main' /\ main'[n] = main[n]
                 /\ \A fs \in FilterRuns(main', old', config'.filter_period, {}) :
                       id \in Ids(fs.old) /\ id \notin Ids(fs.main)
              \/ /\ id \notin Ids(main')
                 /\ \E n \in DOMAIN old :
                       old[n].id = id /\ n \in DOMAIN old' /\ old'[n] = old[n]
                 /\ \A fs \in FilterRuns(main', old', config'.filter_period, {}) :
                       id \in Ids(fs.main) /\ id \notin Ids(fs.old)]_vars

\* a pass has met a failing move
C19_MoveFailed ==
    AfterPass /\ last.failed # {} /\ last.aborted

(* C14: passes and ingests are executed one at a time: no ingest changes the
   folder while a cleanup pass is between its listing of the folder and the
   end of its loop. *)
C14_SerializedPasses ==
    [][last'.op = "ingest" => worker.pc = "sleep"]_vars

(* C15: a pass during which another program removes an entry skips that
   entry and still reconciles every other one: after it, every file left in
   the managed folder is within filter_period and every hidden file within
   filter_period whose name is free has been moved back. *)
C15_ToleratesExternalRemoval ==
    (app = "TempDesk" /\ last.op = "filter_external") =>
        /\ \A n \in DOMAIN main : Age(main[n]) <= config.filter_period
        /\ \A n \in DOMAIN old :
              Age(old[n]) <= config.filter_period => n \in DOMAIN main

(* C22: handling a folder-change notification performs no move and no delete:
   it leaves the contents of the managed folder and of the hidden folder (and
   of TempDrop's folder) and the configuration as they were. *)
C22_NotificationReadOnly ==
    [][last'.op = "directory_changed" =>
          /\ main' = main /\ old' = old /\ oldExists' = oldExists
          /\ temp_folder' = temp_folder
          /\ config' = config /\ auto_delete_days' = auto_delete_days
          /\ last'.moved = {} /\ last'.removed = {}]_vars

\* a notification has been handled while a file that a pass would hide is in
\* the managed folder
C22_NotifiedWithAgedFile ==
    /\ app = "TempDesk" /\ last.op = "directory_changed"
    /\ \E n \in DOMAIN main : Age(main[n]) > config.filter_period

(* C21: an ingest adds exactly one new entry to the managed folder, leaves every
   entry that was in the managed folder or the hidden folder under its name and
   in its place, runs no pass, and the file it added is one that a pass at the
   same clock value classifies as visible. *)
C21_IngestIsLocal ==
    [][(app = "TempDesk" /\ last'.op = "ingest") =>
          /\ \A n \in DOMAIN main : n \in DOMAIN main' /\ main'[n] = main[n]
          /\ Cardinality(DOMAIN main') = Cardinality(DOMAIN main) + 1
          /\ old' = old /\ oldExists' = oldExists
          /\ last'.removed = {}
          /\ \A n \in DOMAIN main' \ DOMAIN main :
                 ShouldShow(now' - main'[n].ctime, config'.filter_period)]_vars

(* C23: a file whose creation time lies ahead of the clock is neither hidden by
   the filter pass nor deleted by the auto-cleanup, whatever filter_period and
   auto_delete are: every handler leaves it in the managed folder under its
   name. *)
C23_FutureFileStaysVisible ==
    [][\A n \in DOMAIN main :
          main[n].ctime > now => n \in DOMAIN main' /\ main'[n] = main[n]]_vars

\* a filter pass or an enabled auto-cleanup has run over a managed folder that
\* holds a file created ahead of the clock
C23_PassOverFutureFile ==
    /\ \/ AfterPass
       \/ last.op = "cleanup" /\ config.auto_delete
    /\ \E n \in DOMAIN main : Age(main[n]) < 0

----------------------------------------------------------------------------
(* Startup: DesktopWidget.load_config (lines 129-174) over the settings files
   it can find. A stored value is kept with its JSON type. *)

Value(type, val) == [type |-> type, val |-> val]

Absent == Value("absent", 0)

\* what a settings file can hold under a key: nothing, a number, a boolean
\* (val 1 for true), a string or null
StoredPeriods ==
    {Absent, Value("number", OneMinute), Value("number", DefaultFilterPeriod),
     Value("string", 0), Value("null", 0)}

StoredFlags == {Absent, Value("bool", 0), Value("bool", 1), Value("string", 0)}

\* a settings file: missing, not JSON, a JSON value that is not an object, or
\* an object
SettingsFiles ==
    {[kind |-> k, filter_period |-> Absent, auto_delete |-> Absent] :
        k \in {"missing", "malformed", "not_object"}}
    \cup {[kind |-> "object", filter_period |-> p, auto_delete |-> a] :
            p \in StoredPeriods, a \in StoredFlags}

\* the settings file of the earlier program name, ~/.tempdrop_config.json
OldSettingsFiles ==
    {f \in SettingsFiles :
        f.kind # "object" \/ (f.filter_period = Value("number", OneMinute) /\ f.auto_delete = Absent)}

\* lines 132-137
default_config ==
    [filter_period |-> Value("number", DefaultFilterPeriod), auto_delete |-> Value("bool", 0)]

\* lines 144-147 and 157-160: a default for every key that is not in the file
MergeWithDefaults(loaded_config) ==
    [filter_period |-> IF loaded_config.filter_period.type = "absent"
                       THEN default_config.filter_period ELSE loaded_config.filter_period,
     auto_delete   |-> IF loaded_config.auto_delete.type = "absent"
                       THEN default_config.auto_delete ELSE loaded_config.auto_delete]

\* lines 140-174: only json.JSONDecodeError is caught (lines 149, 171); the
\* merge over a JSON value that is not an object raises TypeError
load_config(config_file, old_config_file) ==
    IF config_file.kind = "object"
    THEN [raised |-> FALSE, config |-> MergeWithDefaults(config_file)]
    ELSE IF config_file.kind = "not_object"
    THEN [raised |-> TRUE, config |-> default_config]
    ELSE IF old_config_file.kind = "object"
    THEN [raised |-> FALSE, config |-> MergeWithDefaults(old_config_file)]
    ELSE IF old_config_file.kind = "not_object"
    THEN [raised |-> TRUE, config |-> default_config]
    ELSE [raised |-> FALSE, config |-> default_config]

\* DesktopWidget.__init__ with self.config = self.load_config() (line 110)
InitStartup ==
    \E config_file \in SettingsFiles, old_config_file \in OldSettingsFiles :
        LET loaded == load_config(config_file, old_config_file) IN
        /\ app = IF loaded.raised THEN "failed" ELSE "TempDesk"
        /\ config = loaded.config
        /\ main = EmptyDir
        /\ old = EmptyDir
        /\ oldExists = TRUE
        /\ oldCtime = 0
        /\ now = 0
        /\ nextId = 0
        /\ temp_folder = EmptyDir
        /\ last = NoOp("none")
        /\ hist = <<>>
        /\ auto_delete_days = DefaultAutoDeleteDays
        /\ worker = Asleep

\* the handlers that do not read the settings
NextStartup ==
    \/ TempDesk(view_drop_event)
    \/ TempDesk(dropEvent)
    \/ TempDesk(paste_items)
    \/ TempDesk(create_url_shortcut)
    \/ TempDesk(directory_changed)
    \/ (app = "TempDesk" /\ Tick /\ UNCHANGED <<app, hist, auto_delete_days, worker>>)

SpecStartup == InitStartup /\ [][NextStartup]_vars

(* C24: whatever the settings files hold, startup does not fail and the config
   the passes use has a number as filter_period and a boolean as auto_delete. *)
C24_ConfigAlwaysUsable ==
    /\ app # "failed"
    /\ config.filter_period.type = "number"
    /\ config.auto_delete.type = "bool"

(* C25: after a pass that met no failure, with auto_delete off, every file
   directly under the managed folder has age <= filter_period and every file
   under the hidden folder has age > filter_period. *)
C25_ConvergencePostcondition ==
    (AfterPass /\ ~last.aborted /\ last.failed = {} /\ ~config.auto_delete) =>
        /\ \A n \in DOMAIN main : Age(main[n]) <= config.filter_period
        /\ \A n \in DOMAIN old : Age(old[n]) > config.filter_period

----------------------------------------------------------------------------
(* The duplicate loop over folders that an earlier session left behind. *)

\* the names a folder is drawn from: report.url, report_1.url, report_2.url
ProbeNames == {Report, SuffixedName(Report, 1), SuffixedName(Report, 2)}

Rank(name) == IF Len(name.base) = 1 THEN 0 ELSE name.base[2]

\* a folder holding the given names, each file created at time 0
LeftBehind(names) ==
    [n \in names |->
        [id |-> 1 + Cardinality({m \in names : Rank(m) < Rank(n)}), ctime |-> 0]]

\* DesktopWidget.__init__ over a TempDesk_folder that already holds files:
\* any of the names under 'old', and possibly report.url in the folder itself
InitSuffix ==
    \E names \in SUBSET ProbeNames, inMain \in BOOLEAN :
        LET k == Cardinality(names) IN
        /\ app = "TempDesk"
        /\ old = LeftBehind(names)
        /\ main = IF inMain THEN With(EmptyDir, Report, [id |-> k + 1, ctime |-> 0])
                  ELSE EmptyDir
        /\ nextId = IF inMain THEN k + 1 ELSE k
        /\ hist = [id \in 1..(IF inMain THEN k + 1 ELSE k) |->
                      [addedAt |-> 0,
                       hiddenUnder |-> IF id <= k THEN DefaultFilterPeriod ELSE 0,
                       hiddenFrom |-> NoName]]
        /\ oldExists = TRUE
        /\ oldCtime = 0
        /\ config = [filter_period |-> DefaultFilterPeriod, auto_delete |-> FALSE]
        /\ now = 0
        /\ temp_folder = EmptyDir
        /\ last = NoOp("none")
        /\ auto_delete_days = DefaultAutoDeleteDays
        /\ worker = Asleep

NextSuffix ==
    \/ TempDesk(periodic_refresh)
    \/ TempDesk(on_filter_changed)
    \/ TempDesk(view_drop_event)
    \/ TempDesk(dropEvent)
    \/ TempDesk(paste_items)
    \/ TempDesk(create_url_shortcut)
    \/ (Tick /\ UNCHANGED <<app, hist, auto_delete_days, worker>>)

SpecSuffix == InitSuffix /\ [][NextSuffix]_vars

(* C26: for the hidden folder (the destination of a hide) and the managed
   folder (the destination of an ingest) and every file name, the duplicate
   loop ends after at most (number of entries of the destination + 1) probes
   and yields a name that is not present in the destination. *)
C26_SuffixSearchBounded ==
    \A file \in ProbeNames :
        \A present \in {DOMAIN old, MainEntries(main, oldExists)} :
            /\ FreeName(present, file) \notin present
            /\ DuplicateLoopProbes(present, file, file, 1) <= Cardinality(present) + 1

\* a pass has hidden report.url as report_3.url, after probing report.url,
\* report_1.url and report_2.url
C26_ThreeSuffixesTaken ==
    /\ AfterPass
    /\ \E m \in HideMoves(last) : m.src = Report /\ m.dst = SuffixedName(Report, 3)
    /\ DuplicateLoopProbes(DOMAIN old \ {SuffixedName(Report, 3)}, Report, Report, 1) = 4

(* C27: the restore phase moves a hidden file back only when no entry of its
   name exists in the managed folder; when one exists, that entry and the
   hidden file are left exactly as they were. No pass replaces or removes an
   entry of the managed folder by a restore: a file is moved back only under a
   name that is free or that the hide phase of the same pass has vacated, every
   file of the managed folder is still on disk after the pass, and an entry
   that the pass does not hide is there after it, unchanged. *)
C27_RestoreNeverOverwrites ==
    [][(app = "TempDesk" /\ last'.op \in FilterOps) =>
          /\ \A m \in RestoreMoves(last') :
                m.dst \in DOMAIN main => \E h \in HideMoves(last') : h.src = m.dst
          /\ Ids(main) \subseteq Ids(main') \cup Ids(old')
          /\ \A n \in DOMAIN main :
                \/ n \in DOMAIN main' /\ main'[n] = main[n]
                \/ \E m \in HideMoves(last') : m.src = n
          /\ \A n \in (DOMAIN old) \cap (DOMAIN main) :
                (\A m \in HideMoves(last') : m.src # n) =>
                    /\ n \in DOMAIN old' /\ old'[n] = old[n]
                    /\ n \in DOMAIN main' /\ main'[n] = main[n]]_vars

\* a pass has met a hidden file that it classifies as visible while a file of
\* the same name is in the managed folder, and has left both in place
C27_RestoreBlocked ==
    /\ AfterPass /\ ~last.aborted /\ last.moved = {}
    /\ \E n \in (DOMAIN old) \cap (DOMAIN main) :
          /\ ShouldShowHidden(Age(old[n]), config.filter_period)
          /\ old[n].id # main[n].id

(* C28: within one apply_file_filter call, which reads the clock once, a file
   hidden in the first phase is not restored in the second, and no file is
   moved more than once: every file the pass moved lies where its move put it,
   no two moves of the pass are of the same file, and the pass makes at most as
   many renames as there are files. *)
C28_AtMostOneMovePerFile ==
    AfterPass =>
        /\ \A m \in HideMoves(last) : m.dst \in DOMAIN old
        /\ \A m \in RestoreMoves(last) : m.dst \in DOMAIN main
        /\ \A m1, m2 \in last.moved :
              LET at(m) == IF m.from = "main" THEN old[m.dst].id ELSE main[m.dst].id
              IN  at(m1) = at(m2) => m1 = m2
        /\ Cardinality(last.moved) <= Cardinality(Ids(main) \cup Ids(old))

\* a pass has both hidden a file and restored another
C28_HidAndRestored ==
    AfterPass /\ HideMoves(last) # {} /\ RestoreMoves(last) # {}

(* C29 as stated: a file hidden by one pass and restored by a later pass
   reappears in the managed folder under the name it had before it was hidden,
   whatever the hidden folder held. *)
C29_RoundTripPreservesName ==
    [][(app = "TempDesk" /\ last'.op \in FilterOps) =>
          \A m \in RestoreMoves(last') :
              m.dst = hist[old[m.src].id].hiddenFrom]_vars

(* C29: a file hidden by one pass and restored by a later pass reappears in the
   managed folder under the name it had in the hidden folder: the name it had
   before it was hidden when that name was free in the hidden folder at the
   hide, and that name with a suffix _k otherwise. *)
C29_RoundTripKeepsHiddenName ==
    [][(app = "TempDesk" /\ last'.op \in FilterOps) =>
          /\ \A m \in RestoreMoves(last') :
                LET before == hist[old[m.src].id].hiddenFrom IN
                /\ m.dst = m.src
                /\ \/ m.dst = before
                   \/ \E k \in 1..(MaxFiles + 1) : m.dst = SuffixedName(before, k)
          /\ \A m \in HideMoves(last') :
                /\ m.src \in DOMAIN old => m.dst # m.src
                /\ (m.src \notin DOMAIN old /\ \A h \in HideMoves(last') \ {m} : h.dst # m.src)
                       => m.dst = m.src]_vars

\* a pass has restored a file that had been hidden under a suffixed name
C29_RestoredUnderSuffix ==
    /\ AfterPass
    /\ \E m \in RestoreMoves(last) : m.dst = SuffixedName(Report, 1)
    /\ SuffixedName(Report, 1) \in DOMAIN main
    /\ Report \notin DOMAIN main

\* the folders after a failure-free auto_cleanup followed by a failure-free
\* apply_file_filter at the same clock value
CleanupThenFilter ==
    LET cleaned == IF config.auto_delete
                   THEN {CleanupResult(main, old, oldExists, oldCtime,
                                       config.filter_period, order, {}) :
                            order \in Listdir(old)}
                   ELSE {[main |-> main, old |-> old]}
    IN  UNION {{[main |-> f.main, old |-> f.old] :
                   f \in FilterRuns(c.main, c.old, config.filter_period, {})} :
               c \in cleaned}

\* the folders after a failure-free apply_file_filter followed by a failure-free
\* auto_cleanup at the same clock value
FilterThenCleanup ==
    UNION {IF config.auto_delete
           THEN {LET c == CleanupResult(f.main, f.old, TRUE,
                                        IF oldExists THEN oldCtime ELSE now,
                                        config.filter_period, order, {})
                 IN  [main |-> c.main, old |-> c.old] : order \in Listdir(f.old)}
           ELSE {[main |-> f.main, old |-> f.old]} :
           f \in FilterRuns(main, old, config.filter_period, {})}

(* C30: in every state of the folders and the config, the two timer callbacks
   leave the same contents of the managed folder and the hidden folder
   whichever of them runs first in the tick. *)
C30_TimerCallbacksCommute ==
    app = "TempDesk" => CleanupThenFilter = FilterThenCleanup

====
